---- MODULE Spec2Model ----
(***************************************************************************)
(* Model of frp-web-lite:                                                  *)
(*   - src/resource_guardian.py : the ResourceGuardian daemon loop         *)
(*     (hourly reset, health check, restart policy, restart, cleanup);     *)
(*   - src/app.py : the panel's TTL caches (get_cached_data), the          *)
(*     memoised status command and the api_status / api_logs / api_action  *)
(*     handlers, served on several threads.                                *)
(* Time is counted in whole seconds.                                       *)
(***************************************************************************)
EXTENDS Integers, Sequences, FiniteSets, TLC

VARIABLES
    \* ---- resource_guardian.py ----
    config,              \* self.config (immutable per run)
    last_restart,        \* self.last_restart (NoneT = None)
    restart_count,       \* self.restart_count
    last_counter_reset,  \* run_daemon local last_counter_reset
    now,                 \* wall clock seen by the guardian
    pc,                  \* position of the daemon loop
    top,                 \* what the last hourly-reset step saw and did
    tick,                \* what the last check_service_health did
    signals,             \* stop signals (SIGINT) delivered to the daemon so far
    recent,              \* times of the successful restarts of the last hour
    sinceReset           \* successful restarts since the last hourly reset

VARIABLES
    \* ---- app.py: the panel ----
    svc,                 \* is the frps service active (the process manager's state)
    actionSeq,           \* number of action commands the process manager has run
    retSeq,              \* highest actionSeq among the api_action calls that returned
    status_cache,        \* _status_cache
    logs_cache,          \* _logs_cache
    cmd_cache,           \* the lru_cache of get_cached_command_result
    ptime,               \* time.time() seen by the panel
    th,                  \* the request each server thread is handling
    changed              \* the last change of svc that no panel action made

VARIABLES
    \* ---- app.py: get_cached_data on its own, with a counting fetch function ----
    cache,               \* cache_dict
    ctime,               \* time.time()
    fetches,             \* number of calls of fetch_func so far; the n-th returns n
    fetchTime,           \* fetchTime[n]: the time of the n-th fetch
    calls,               \* number of get_cached_data calls so far
    call,                \* the last get_cached_data call
    invalidated          \* was the cache cleared since the last fetch

VARIABLES
    \* ---- performance_monitor.py ----
    monitor_stats,       \* PerformanceMonitor.stats: memory_usage and cpu_usage
    samples,             \* number of system snapshots log_stats has received
    logged,              \* what the last log_stats call received
    lw_cfg,              \* maxsize and ttl given to lightweight_cache
    lw_cache,            \* the decorator's cache dict, in insertion order
    lwtime,              \* time.time() seen by the wrapper
    invocations,         \* calls of the wrapped function so far; the n-th returns n
    lw_call              \* the last call of the wrapper

gvars == <<config, last_restart, restart_count, last_counter_reset, now, pc, top, tick,
           signals, recent, sinceReset>>

pvars == <<svc, actionSeq, retSeq, status_cache, logs_cache, cmd_cache, ptime, th,
           changed>>

cvars == <<cache, ctime, fetches, fetchTime, calls, call, invalidated>>

mvars == <<monitor_stats, samples, logged, lw_cfg, lw_cache, lwtime, invocations, lw_call>>

vars == <<gvars, pvars, cvars, mvars>>

----------------------------------------------------------------------------
(* Bounds and input domains *)

MaxTime == 5500                    \* the guardian stops sleeping past this time
MaxSignals == 1                    \* stop signals delivered to the daemon

NoneT == -1                        \* Python None for a timestamp

CheckIntervals == {1799}           \* check_interval values tried
Cooldowns      == {0, 1801, 1802}  \* restart_cooldown values tried
MaxRestartsSet == {0, 1, 2}        \* max_restarts_per_hour values tried
MemReadings    == {400, 401}       \* ProcessStats.memory_mb readings
CpuReadings    == {80, 81}         \* ProcessStats.cpu_percent readings
SysMemReadings == {85, 86}         \* SystemStats.memory_percent readings
CmdDurations   == {0, 30}          \* seconds a restart command takes
RateIntervals   == {899}           \* check_interval values tried for the restart rate
RateMaxRestarts == {2}             \* max_restarts_per_hour values tried for the restart rate
LiveIntervals   == {899, 1799}     \* check_interval values of the unbounded runs
LiveCooldowns   == {0, 1801}       \* restart_cooldown values of the unbounded runs
LiveMaxRestarts == {1, 2}          \* max_restarts_per_hour values of the unbounded runs

MaxPanelTime == 6                  \* the panel's clock stops here
MaxActions   == 1                  \* action commands run by the panel
MaxCacheTime == 12                 \* clock bound for get_cached_data on its own
MaxCalls     == 5                  \* get_cached_data calls on its own
MaxSamples   == 160                \* system snapshots given to log_stats
MaxLwCalls   == 5                  \* calls of a function wrapped by lightweight_cache
MaxLwTime    == 3                  \* clock bound for lightweight_cache

Threads   == {1, 2}                \* server threads (app.run(threaded=True))
PanelTimeSteps == {3}              \* seconds between two readings of the panel's clock
LinesArgs == {50, 250}             \* ?lines= arguments of /api/logs
LwMaxsizes == {1, 2}               \* maxsize arguments of lightweight_cache
LwTTLs     == {2}                  \* ttl arguments of lightweight_cache
LwKeys     == {1, 2, 3}            \* distinct argument lists of the wrapped function
BufferLimit == 100                 \* log_stats trims a list longer than this
BufferKeep  == 50                  \* entries log_stats keeps when it trims
CacheTTLs == {5, 10}               \* the ttl of _status_cache and of _logs_cache

(* Program constants *)
StatusTTL   == 5
LogsTTL     == 10
MaxLogLines == 200
USE_SYSTEMD == TRUE                \* the handlers are modelled on their systemd branch
LOGIN_REQUIRED == TRUE             \* the default of the LOGIN_REQUIRED setting
memory_limit_mb   == 400
cpu_limit_percent == 80
HourSeconds       == 3600
CleanupThreshold  == 85
SampleSeconds     == 1             \* cpu_percent(interval=1)

----------------------------------------------------------------------------
(* ResourceGuardian.should_restart_service *)

Decision(r, why) == [restart |-> r, reason |-> why]

should_restart_service_swapped(cfg, last, count, stats, t) ==
    IF ~cfg.enable_auto_restart
    THEN Decision(FALSE, "disabled")
    ELSE IF last # NoneT /\ t - last < cfg.restart_cooldown
    THEN Decision(FALSE, "cooldown")
    ELSE IF count >= cfg.max_restarts_per_hour
    THEN Decision(FALSE, "max_restarts")
    ELSE IF stats.cpu_percent > cpu_limit_percent
    THEN Decision(TRUE, "cpu")
    ELSE IF stats.memory_mb > memory_limit_mb
    THEN Decision(TRUE, "memory")
    ELSE Decision(FALSE, "within_limits")

should_restart_service_nocooldown(cfg, last, count, stats, t) ==
    IF ~cfg.enable_auto_restart
    THEN Decision(FALSE, "disabled")
    ELSE IF count >= cfg.max_restarts_per_hour
    THEN Decision(FALSE, "max_restarts")
    ELSE IF stats.memory_mb > memory_limit_mb
    THEN Decision(TRUE, "memory")
    ELSE IF stats.cpu_percent > cpu_limit_percent
    THEN Decision(TRUE, "cpu")
    ELSE Decision(FALSE, "within_limits")

should_restart_service_nobudget(cfg, last, count, stats, t) ==
    IF ~cfg.enable_auto_restart
    THEN Decision(FALSE, "disabled")
    ELSE IF last # NoneT /\ t - last < cfg.restart_cooldown
    THEN Decision(FALSE, "cooldown")
    ELSE IF count > cfg.max_restarts_per_hour
    THEN Decision(FALSE, "max_restarts")
    ELSE IF stats.memory_mb > memory_limit_mb
    THEN Decision(TRUE, "memory")
    ELSE IF stats.cpu_percent > cpu_limit_percent
    THEN Decision(TRUE, "cpu")
    ELSE Decision(FALSE, "within_limits")

should_restart_service_noflag(cfg, last, count, stats, t) ==
    IF last # NoneT /\ t - last < cfg.restart_cooldown
    THEN Decision(FALSE, "cooldown")
    ELSE IF count >= cfg.max_restarts_per_hour
    THEN Decision(FALSE, "max_restarts")
    ELSE IF stats.memory_mb > memory_limit_mb
    THEN Decision(TRUE, "memory")
    ELSE IF stats.cpu_percent > cpu_limit_percent
    THEN Decision(TRUE, "cpu")
    ELSE Decision(FALSE, "within_limits")

should_restart_service(cfg, last, count, stats, t) ==
    IF ~cfg.enable_auto_restart
    THEN Decision(FALSE, "disabled")
    ELSE IF last # NoneT /\ t - last < cfg.restart_cooldown
    THEN Decision(FALSE, "cooldown")
    ELSE IF count >= cfg.max_restarts_per_hour
    THEN Decision(FALSE, "max_restarts")
    ELSE IF stats.memory_mb > memory_limit_mb
    THEN Decision(TRUE, "memory")
    ELSE IF stats.cpu_percent > cpu_limit_percent
    THEN Decision(TRUE, "cpu")
    ELSE Decision(FALSE, "within_limits")

----------------------------------------------------------------------------
(* ResourceGuardian.restart_service: the RestartState after the command.   *)
(* outcome is "ok" (exit 0), "nonzero" or "exception" (timeout included);  *)
(* t is the time at which the command has finished.                        *)

RestartState(last, count) == [last_restart |-> last, restart_count |-> count]

restart_service_countsfailure(last, count, outcome, t) ==
    RestartState(t, count + 1)

restart_service(last, count, outcome, t) ==
    IF outcome = "ok"
    THEN RestartState(t, count + 1)
    ELSE RestartState(last, count)

RestartLogs(outcome) ==
    IF outcome = "ok" THEN <<"WARNING:restarting", "INFO:restarted">>
    ELSE <<"WARNING:restarting", "ERROR:restart_failed">>

----------------------------------------------------------------------------
(* ResourceGuardian.cleanup_memory: does the cache-drop run, and its logs. *)

cleanup_memory(cfg) == cfg.enable_memory_cleanup

\* ok: no exception was raised (the exit status of sync and echo is not looked at)
CleanupLogs(cfg, ok) ==
    IF ~cleanup_memory(cfg) THEN <<>>
    ELSE IF ok THEN <<"INFO:cleanup">> ELSE <<"ERROR:cleanup_failed">>

----------------------------------------------------------------------------
(* State after construction (__init__ then the first lines of run_daemon)  *)

NoTick ==
    [kind |-> "none", memory_mb |-> 0, cpu_percent |-> 0, sys_percent |-> 0,
     evalNow |-> 0, pre_last |-> NoneT, pre_count |-> 0,
     restart |-> FALSE, reason |-> "none",
     restartCmds |-> 0, restartOutcome |-> "none",
     startCmds |-> 0, startOutcome |-> "none", cleanupCmds |-> 0,
     processStatsCalls |-> 0, systemStatsCalls |-> 0,
     logs |-> <<>>]

NoTop == [elapsed |-> 0, count |-> 0, fired |-> FALSE]

GuardianInit ==
    /\ config \in [enable_auto_restart   : BOOLEAN,
                   enable_memory_cleanup : BOOLEAN,
                   restart_cooldown      : Cooldowns,
                   max_restarts_per_hour : MaxRestartsSet,
                   check_interval        : CheckIntervals]
    /\ last_restart = NoneT
    /\ restart_count = 0
    /\ last_counter_reset = 0
    /\ now = 0
    /\ pc = "loop_top"
    /\ top = NoTop
    /\ tick = NoTick
    /\ signals = 0
    /\ recent = <<>>
    /\ sinceReset = 0

\* the guardian with its default configuration, not running
GuardianQuiet ==
    /\ config = [enable_auto_restart |-> TRUE, enable_memory_cleanup |-> TRUE,
                 restart_cooldown |-> 300, max_restarts_per_hour |-> 3,
                 check_interval |-> 30]
    /\ last_restart = NoneT
    /\ restart_count = 0
    /\ last_counter_reset = 0
    /\ now = 0
    /\ pc = "loop_top"
    /\ top = NoTop
    /\ tick = NoTick
    /\ signals = 0
    /\ recent = <<>>
    /\ sinceReset = 0


----------------------------------------------------------------------------
(* app.py: get_cached_data, lines 64-70 *)

\* a value held by a cache or returned to a client; NoData is Python None
NoData == [present |-> FALSE, active |-> FALSE, lines |-> 0, seq |-> 0]
StatusValue(a, n) == [present |-> TRUE, active |-> a, lines |-> 0, seq |-> n]
LogsValue(l)      == [present |-> TRUE, active |-> FALSE, lines |-> l, seq |-> 0]

EmptyCache(ttl) == [data |-> NoData, timestamp |-> 0, ttl |-> ttl]

\* line 67 without the age test
CacheStale_nottl(c, t) == c.data = NoData

\* line 67: is a fetch needed at time t
CacheStale(c, t) == c.data = NoData \/ (t - c.timestamp) > c.ttl

\* lines 68-69 keeping the old timestamp
CacheStore_oldstamp(c, v, t) == [c EXCEPT !.data = v]

\* lines 68-69: store the fetched value v with the time t read at line 66
CacheStore(c, v, t) == [c EXCEPT !.data = v, !.timestamp = t]

\* lines 178-181: api_action clears the caches
CacheClear(c) == [c EXCEPT !.data = NoData]

----------------------------------------------------------------------------
(* get_cached_data called sequentially with a fetch function whose n-th    *)
(* call returns n                                                          *)

NoCall == [t |-> 0, result |-> 0, fetched |-> FALSE, inval |-> FALSE]

CacheQuiet ==
    /\ cache = EmptyCache(StatusTTL)
    /\ ctime = 0
    /\ fetches = 0
    /\ fetchTime = <<>>
    /\ calls = 0
    /\ call = NoCall
    /\ invalidated = FALSE

CacheInit ==
    /\ cache \in {EmptyCache(ttl) : ttl \in CacheTTLs}
    /\ ctime = 0
    /\ fetches = 0
    /\ fetchTime = <<>>
    /\ calls = 0
    /\ call = NoCall
    /\ invalidated = FALSE

CounterValue(n) == [present |-> TRUE, active |-> FALSE, lines |-> 0, seq |-> n]

\* one whole call of get_cached_data(cache, fetch_func)
GetCachedData ==
    /\ calls < MaxCalls
    /\ calls' = calls + 1
    /\ IF CacheStale(cache, ctime)
       THEN /\ fetches' = fetches + 1
            /\ fetchTime' = Append(fetchTime, ctime)
            /\ cache' = CacheStore(cache, CounterValue(fetches + 1), ctime)
            /\ invalidated' = FALSE
       ELSE UNCHANGED <<fetches, fetchTime, cache, invalidated>>
    /\ call' = [t |-> ctime, result |-> cache'.data.seq,
                fetched |-> CacheStale(cache, ctime), inval |-> invalidated]
    /\ UNCHANGED <<ctime, gvars, pvars, mvars>>

CacheTimePasses ==
    /\ ctime < MaxCacheTime
    /\ ctime' = ctime + 1
    /\ UNCHANGED <<cache, fetches, fetchTime, calls, call, invalidated, gvars, pvars, mvars>>

\* cache_dict['data'] = None, as api_action does
CacheInvalidate ==
    /\ cache.data # NoData
    /\ cache' = CacheClear(cache)
    /\ invalidated' = TRUE
    /\ UNCHANGED <<ctime, fetches, fetchTime, calls, call, gvars, pvars, mvars>>

CacheNext == GetCachedData \/ CacheTimePasses \/ CacheInvalidate

----------------------------------------------------------------------------
(* app.py: the request handlers, one server thread per request             *)

Idle == [op |-> "none", pc |-> "idle", lines |-> 0, action |-> "none",
         val |-> NoData, tnow |-> 0, begin |-> 0, code |-> 0, resp |-> NoData,
         logged_in |-> FALSE]

\* no crash and no start by the guardian so far
NoChange == [at |-> NoneT, seq |-> 0]

\* require_auth, lines 108-112
require_auth_open(login_required, logged_in) == TRUE

require_auth(login_required, logged_in) ==
    IF ~login_required THEN TRUE ELSE logged_in

\* a request arrives with a session that is logged in or not
Session(t, li, rec) == [th EXCEPT ![t] = [rec EXCEPT !.logged_in = li]]

PanelQuiet ==
    /\ svc = TRUE
    /\ actionSeq = 0
    /\ retSeq = 0
    /\ status_cache = EmptyCache(StatusTTL)
    /\ logs_cache = EmptyCache(LogsTTL)
    /\ cmd_cache = NoData
    /\ ptime = 0
    /\ th = [t \in Threads |-> Idle]
    /\ changed = NoChange

PanelInit ==
    /\ svc \in BOOLEAN
    /\ actionSeq = 0
    /\ retSeq = 0
    /\ status_cache = EmptyCache(StatusTTL)
    /\ logs_cache = EmptyCache(LogsTTL)
    /\ cmd_cache = NoData
    /\ ptime = 0
    /\ th = [t \in Threads |-> Idle]
    /\ changed = NoChange

Free(t) == th[t].pc \in {"idle", "done"}

\* require_auth fails: 401, nothing else happens (lines 154-155, 162-163, 172-173)
Unauthorized(t) ==
    /\ Free(t)
    /\ \E o \in {"status", "logs", "action"}, li \in BOOLEAN :
         /\ ~require_auth(LOGIN_REQUIRED, li)
         /\ th' = Session(t, li, [Idle EXCEPT !.op = o, !.pc = "done", !.code = 401])
    /\ UNCHANGED <<svc, actionSeq, retSeq, status_cache, logs_cache, cmd_cache, ptime>>
    /\ UNCHANGED <<gvars, cvars, mvars, changed>>

\* api_action with an action name outside start/stop/restart: 400 (lines 175-176)
InvalidAction(t) ==
    /\ Free(t)
    /\ \E li \in BOOLEAN :
         /\ require_auth(LOGIN_REQUIRED, li)
         /\ th' = Session(t, li, [Idle EXCEPT !.op = "action", !.action = "reload",
                                              !.pc = "done", !.code = 400])
    /\ UNCHANGED <<svc, actionSeq, retSeq, status_cache, logs_cache, cmd_cache, ptime>>
    /\ UNCHANGED <<gvars, cvars, mvars, changed>>

\* api_status -> get_frps_status -> get_cached_data, lines 66-67 (and line 70
\* when the cached value is fresh)
StatusBegin(t) ==
    /\ Free(t)
    /\ \E li \in BOOLEAN :
         /\ require_auth(LOGIN_REQUIRED, li)
         /\ th' = Session(t, li,
                IF CacheStale(status_cache, ptime)
                THEN [Idle EXCEPT !.op = "status", !.tnow = ptime, !.begin = retSeq,
                                  !.pc = "fetch"]
                ELSE [Idle EXCEPT !.op = "status", !.begin = retSeq, !.code = 200,
                                  !.resp = status_cache.data, !.pc = "done"])
    /\ UNCHANGED <<svc, actionSeq, retSeq, status_cache, logs_cache, cmd_cache, ptime>>
    /\ UNCHANGED <<gvars, cvars, mvars, changed>>

\* fetch_frps_status, lines 74-81: execute_command(..., use_cache=True) goes
\* through the lru_cache; only a miss runs systemctl is-active
fetch_frps_status_nomemo(memo, a, n) == StatusValue(a, n)

fetch_frps_status(memo, a, n) ==
    IF memo # NoData THEN memo ELSE StatusValue(a, n)

StatusFetch(t) ==
    /\ th[t].op = "status" /\ th[t].pc = "fetch"
    /\ LET v == fetch_frps_status(cmd_cache, svc, actionSeq)
       IN  /\ cmd_cache' = v
           /\ th' = [th EXCEPT ![t].val = v, ![t].pc = "store"]
    /\ UNCHANGED <<svc, actionSeq, retSeq, status_cache, logs_cache, ptime>>
    /\ UNCHANGED <<gvars, cvars, mvars, changed>>

\* get_cached_data, lines 68-70, and the response
StatusStore(t) ==
    /\ th[t].op = "status" /\ th[t].pc = "store"
    /\ status_cache' = CacheStore(status_cache, th[t].val, th[t].tnow)
    /\ th' = [th EXCEPT ![t] = [Idle EXCEPT !.op = "status", !.begin = th[t].begin,
                                            !.code = 200, !.resp = th[t].val,
                                            !.logged_in = th[t].logged_in,
                                            !.pc = "done"]]
    /\ UNCHANGED <<svc, actionSeq, retSeq, logs_cache, cmd_cache, ptime>>
    /\ UNCHANGED <<gvars, cvars, mvars, changed>>

\* api_logs line 165
RequestedLines(n) == IF n < MaxLogLines THEN n ELSE MaxLogLines

\* api_logs -> get_frps_logs(lines) -> get_cached_data, lines 66-67 (and line
\* 70 when the cached value is fresh)
LogsBegin(t) ==
    /\ Free(t)
    /\ \E n \in LinesArgs, li \in BOOLEAN :
         /\ require_auth(LOGIN_REQUIRED, li)
         /\ th' = Session(t, li,
                  IF CacheStale(logs_cache, ptime)
                  THEN [Idle EXCEPT !.op = "logs", !.lines = RequestedLines(n),
                                    !.tnow = ptime, !.pc = "fetch"]
                  ELSE [Idle EXCEPT !.op = "logs", !.lines = RequestedLines(n),
                                    !.code = 200, !.resp = logs_cache.data,
                                    !.pc = "done"])
    /\ UNCHANGED <<svc, actionSeq, retSeq, status_cache, logs_cache, cmd_cache, ptime>>
    /\ UNCHANGED <<gvars, cvars, mvars, changed>>

\* fetch_frps_logs(lines), lines 93-95, then get_cached_data lines 68-70 and
\* the response
LogsFetchStore(t) ==
    /\ th[t].op = "logs" /\ th[t].pc = "fetch"
    /\ logs_cache' = CacheStore(logs_cache, LogsValue(th[t].lines), th[t].tnow)
    /\ th' = [th EXCEPT ![t] = [Idle EXCEPT !.op = "logs", !.lines = th[t].lines,
                                            !.code = 200,
                                            !.logged_in = th[t].logged_in,
                                            !.resp = LogsValue(th[t].lines),
                                            !.pc = "done"]]
    /\ UNCHANGED <<svc, actionSeq, retSeq, status_cache, cmd_cache, ptime>>
    /\ UNCHANGED <<gvars, cvars, mvars, changed>>

\* api_action, lines 172-181: authorised, valid name, the caches are cleared
ActionClear(t) ==
    /\ Free(t)
    /\ actionSeq + Cardinality({u \in Threads : th[u].op = "action" /\ th[u].pc = "exec"})
         < MaxActions
    /\ \E a \in {"start", "stop", "restart"}, li \in BOOLEAN :
         /\ require_auth(LOGIN_REQUIRED, li)
         /\ th' = Session(t, li, [Idle EXCEPT !.op = "action", !.action = a,
                                              !.pc = "exec"])
    /\ status_cache' = CacheClear(status_cache)
    /\ logs_cache' = CacheClear(logs_cache)
    /\ cmd_cache' = NoData
    /\ UNCHANGED <<svc, actionSeq, retSeq, ptime>>
    /\ UNCHANGED <<gvars, cvars, mvars, changed>>

\* the service state after systemctl <action>
AfterAction(a, before, ok) ==
    IF ~ok THEN before ELSE a \in {"start", "restart"}

\* api_action, lines 183-184: the command runs (and may fail)
ActionExec(t) ==
    /\ th[t].op = "action" /\ th[t].pc = "exec"
    /\ \E ok \in BOOLEAN :
         /\ svc' = AfterAction(th[t].action, svc, ok)
         /\ actionSeq' = actionSeq + 1
         /\ th' = [th EXCEPT ![t].val = StatusValue(ok, actionSeq + 1), ![t].pc = "ret"]
    /\ UNCHANGED <<retSeq, status_cache, logs_cache, cmd_cache, ptime>>
    /\ UNCHANGED <<gvars, cvars, mvars, changed>>

\* api_action, line 195
ActionReturn(t) ==
    /\ th[t].op = "action" /\ th[t].pc = "ret"
    /\ th' = [th EXCEPT ![t] = [Idle EXCEPT !.op = "action", !.action = th[t].action,
                                            !.code = 200, !.resp = th[t].val,
                                            !.logged_in = th[t].logged_in,
                                            !.pc = "done"]]
    /\ retSeq' = IF th[t].val.seq > retSeq THEN th[t].val.seq ELSE retSeq
    /\ UNCHANGED <<svc, actionSeq, status_cache, logs_cache, cmd_cache, ptime>>
    /\ UNCHANGED <<gvars, cvars, mvars, changed>>

PanelTimePasses ==
    /\ \E d \in PanelTimeSteps :
         /\ ptime + d <= MaxPanelTime
         /\ ptime' = ptime + d
    /\ UNCHANGED <<svc, actionSeq, retSeq, status_cache, logs_cache, cmd_cache, th>>
    /\ UNCHANGED <<gvars, cvars, mvars, changed>>

PanelNext ==
    \/ \E t \in Threads : Unauthorized(t)
    \/ \E t \in Threads : InvalidAction(t)
    \/ \E t \in Threads : StatusBegin(t)
    \/ \E t \in Threads : StatusFetch(t)
    \/ \E t \in Threads : StatusStore(t)
    \/ \E t \in Threads : LogsBegin(t)
    \/ \E t \in Threads : LogsFetchStore(t)
    \/ \E t \in Threads : ActionClear(t)
    \/ \E t \in Threads : ActionExec(t)
    \/ \E t \in Threads : ActionReturn(t)
    \/ PanelTimePasses

----------------------------------------------------------------------------
(* performance_monitor.py: PerformanceMonitor.log_stats                     *)

\* the n-th snapshot get_system_stats returns (lines 37-43); the readings
\* are told apart by their arrival number
SystemSnapshot(n) == [memory_percent |-> <<"mem", n>>, cpu_percent |-> <<"cpu", n>>]

\* Python s[-k:]
LastN(s, k) == IF Len(s) <= k THEN s ELSE SubSeq(s, Len(s) - k + 1, Len(s))

\* lines 67-73 with only memory_usage trimmed
log_stats_memonly(st, sys) ==
    LET m == Append(st.memory_usage, sys.memory_percent)
        c == Append(st.cpu_usage, sys.cpu_percent)
    IN  IF Len(m) > BufferLimit
        THEN [memory_usage |-> LastN(m, BufferKeep), cpu_usage |-> c]
        ELSE [memory_usage |-> m, cpu_usage |-> c]

\* lines 67-73: log_stats with a snapshot present
log_stats(st, sys) ==
    LET m == Append(st.memory_usage, sys.memory_percent)
        c == Append(st.cpu_usage, sys.cpu_percent)
    IN  IF Len(m) > BufferLimit
        THEN [memory_usage |-> LastN(m, BufferKeep), cpu_usage |-> LastN(c, BufferKeep)]
        ELSE [memory_usage |-> m, cpu_usage |-> c]

----------------------------------------------------------------------------
(* performance_monitor.py: lightweight_cache, wrapping a function whose     *)
(* n-th call returns n                                                      *)

NoLwCall == [key |-> 0, t |-> 0, result |-> 0, invoked |-> FALSE, stamp |-> 0,
             repeat |-> FALSE, evicted |-> {}]

\* the monitor module just imported: line 17-21 and the defaults of line 146
MonitorQuiet ==
    /\ monitor_stats = [memory_usage |-> <<>>, cpu_usage |-> <<>>]
    /\ samples = 0
    /\ logged = "none"
    /\ lw_cfg = [maxsize |-> 32, ttl |-> 300]
    /\ lw_cache = <<>>
    /\ lwtime = 0
    /\ invocations = 0
    /\ lw_call = NoLwCall

LwMonitorInit ==
    /\ monitor_stats = [memory_usage |-> <<>>, cpu_usage |-> <<>>]
    /\ samples = 0
    /\ logged = "none"
    /\ lw_cfg \in [maxsize : LwMaxsizes, ttl : LwTTLs]
    /\ lw_cache = <<>>
    /\ lwtime = 0
    /\ invocations = 0
    /\ lw_call = NoLwCall

\* position of key k in the dict, 0 when it is not there (line 157)
LwIndex(c, k) ==
    IF \E i \in DOMAIN c : c[i].key = k
    THEN CHOOSE i \in DOMAIN c : c[i].key = k
    ELSE 0

\* del cache[k] for every k in ks (lines 162, 172-173)
LwDelete(c, ks) == SelectSeq(c, LAMBDA e : e.key \notin ks)

\* sorted(cache.keys(), key=timestamp), line 171: a stable sort
RECURSIVE InsertByTime(_, _)
InsertByTime(s, e) ==
    IF s = <<>> THEN <<e>>
    ELSE IF Head(s).timestamp <= e.timestamp
         THEN <<Head(s)>> \o InsertByTime(Tail(s), e)
         ELSE <<e>> \o s

RECURSIVE SortedByTime(_)
SortedByTime(c) ==
    IF c = <<>> THEN <<>>
    ELSE InsertByTime(SortedByTime(SubSeq(c, 1, Len(c) - 1)), c[Len(c)])

\* lines 169-171: the entries chosen for eviction
OldestEntries(c, maxsize) ==
    IF Len(c) > maxsize
    THEN LET n == Len(c) - maxsize + 1
             sorted == SortedByTime(c)
         IN  {sorted[i] : i \in 1..(IF n < Len(c) THEN n ELSE Len(c))}
    ELSE {}

\* lines 151-175: one call of the wrapper with arguments k at time t, the
\* wrapped function having been called n times so far
wrapper(c, cfg, k, t, n) ==
    LET i   == LwIndex(c, k)
        hit == i # 0 /\ t - c[i].timestamp < cfg.ttl
    IN  IF hit
        THEN [cache |-> c, result |-> c[i].result, invoked |-> FALSE,
              stamp |-> c[i].timestamp, evicted |-> {}]
        ELSE LET stored == Append(LwDelete(c, {k}),
                                  [key |-> k, result |-> n + 1, timestamp |-> t])
                 old    == OldestEntries(stored, cfg.maxsize)
             IN  [cache |-> LwDelete(stored, {e.key : e \in old}),
                  result |-> n + 1, invoked |-> TRUE, stamp |-> t, evicted |-> old]

----------------------------------------------------------------------------
Init == GuardianInit /\ PanelQuiet /\ CacheQuiet /\ MonitorQuiet

PanelSpecInit == GuardianQuiet /\ PanelInit /\ CacheQuiet /\ MonitorQuiet

PanelSpec == PanelSpecInit /\ [][PanelNext]_vars

\* the service changes state with no panel action: it dies, or the guardian
\* finds it not running and starts it (resource_guardian.py line 185); the
\* panel's caches are not told
ServiceChange ==
    /\ changed = NoChange
    /\ svc' = ~svc
    /\ changed' = [at |-> ptime, seq |-> actionSeq]
    /\ UNCHANGED <<actionSeq, retSeq, status_cache, logs_cache, cmd_cache, ptime, th>>
    /\ UNCHANGED <<gvars, cvars, mvars>>

CrashNext == PanelNext \/ ServiceChange

CrashSpec == PanelSpecInit /\ [][CrashNext]_vars

CacheSpecInit == GuardianQuiet /\ PanelQuiet /\ CacheInit /\ MonitorQuiet

CacheSpec == CacheSpecInit /\ [][CacheNext]_vars

----------------------------------------------------------------------------
(* PerformanceMonitor.log_stats called again and again *)

\* lines 65-73: get_system_stats returns a snapshot or None
LogStats ==
    /\ samples < MaxSamples
    /\ \E present \in BOOLEAN :
         IF present
         THEN /\ monitor_stats' = log_stats(monitor_stats, SystemSnapshot(samples + 1))
              /\ samples' = samples + 1
              /\ logged' = "present"
         ELSE /\ logged' = "absent"
              /\ UNCHANGED <<monitor_stats, samples>>
    /\ UNCHANGED <<lw_cfg, lw_cache, lwtime, invocations, lw_call>>
    /\ UNCHANGED <<gvars, pvars, cvars>>

BufferInit == GuardianQuiet /\ PanelQuiet /\ CacheQuiet /\ MonitorQuiet

BufferSpec == BufferInit /\ [][LogStats]_vars

----------------------------------------------------------------------------
(* a function decorated with lightweight_cache(maxsize, ttl), called        *)
(* sequentially                                                             *)

LwCall ==
    /\ invocations < MaxLwCalls
    /\ \E k \in LwKeys :
         LET r == wrapper(lw_cache, lw_cfg, k, lwtime, invocations)
         IN  /\ lw_cache' = r.cache
             /\ invocations' = IF r.invoked THEN invocations + 1 ELSE invocations
             /\ lw_call' = [key |-> k, t |-> lwtime, result |-> r.result,
                            invoked |-> r.invoked, stamp |-> r.stamp,
                            repeat |-> (lw_call.key = k
                                          /\ lwtime - lw_call.stamp < lw_cfg.ttl),
                            evicted |-> r.evicted]
    /\ UNCHANGED <<monitor_stats, samples, logged, lw_cfg, lwtime>>
    /\ UNCHANGED <<gvars, pvars, cvars>>

LwTimePasses ==
    /\ lwtime < MaxLwTime
    /\ lwtime' = lwtime + 1
    /\ UNCHANGED <<monitor_stats, samples, logged, lw_cfg, lw_cache, invocations, lw_call>>
    /\ UNCHANGED <<gvars, pvars, cvars>>

LwNext == LwCall \/ LwTimePasses

LwInit == GuardianQuiet /\ PanelQuiet /\ CacheQuiet /\ LwMonitorInit

LwSpec == LwInit /\ [][LwNext]_vars

----------------------------------------------------------------------------
(* run_daemon, lines 231-234: the hourly reset step at the top of the loop *)

ResetDue_ge(t, lastReset) == t - lastReset >= HourSeconds

ResetDue(t, lastReset) == t - lastReset > HourSeconds

reset_restart_counter_keep(count) == count

reset_restart_counter(count) == 0

HourlyResetCheck ==
    /\ pc = "loop_top"
    /\ top' = [elapsed |-> now - last_counter_reset,
               count   |-> restart_count,
               fired   |-> ResetDue(now, last_counter_reset)]
    /\ IF ResetDue(now, last_counter_reset)
       THEN /\ restart_count' = reset_restart_counter(restart_count)
            /\ last_counter_reset' = now
            /\ sinceReset' = 0
       ELSE UNCHANGED <<restart_count, last_counter_reset, sinceReset>>
    /\ pc' = "health"
    /\ UNCHANGED <<config, last_restart, now, tick, signals, recent>>
    /\ UNCHANGED <<pvars, cvars, mvars>>

----------------------------------------------------------------------------
(* check_service_health, one branch per way through the function           *)

\* lines 183-188: the outcome of "systemctl start" is "ok", "nonzero" or
\* "exception" (timeout included); the exit status is not looked at
StartLogs(outcome) ==
    <<"WARNING:not_running">> \o
    (IF outcome = "exception" THEN <<"ERROR:start_failed">>
                              ELSE <<"INFO:start_attempted">>)

\* lines 180-189 as a tick record
PidAbsentTick(outcome) ==
    [NoTick EXCEPT
       !.kind = "pid_absent",
       !.pre_last = last_restart, !.pre_count = restart_count,
       !.startCmds = 1, !.startOutcome = outcome,
       !.logs = StartLogs(outcome)]

\* the start of a down service charged to the restart budget
HealthPidAbsent_counted ==
    /\ pc = "health"
    /\ \E outcome \in {"ok", "nonzero", "exception"} : tick' = PidAbsentTick(outcome)
    /\ last_restart' = now
    /\ restart_count' = restart_count + 1
    /\ pc' = "sleep"
    /\ UNCHANGED <<config, last_counter_reset, now, top>>
    /\ UNCHANGED <<signals, recent, sinceReset>>
    /\ UNCHANGED <<pvars, cvars, mvars>>

\* lines 180-189: no PID -> WARNING, one systemctl start, return
HealthPidAbsent ==
    /\ pc = "health"
    /\ \E outcome \in {"ok", "nonzero", "exception"} : tick' = PidAbsentTick(outcome)
    /\ pc' = "sleep"
    /\ UNCHANGED <<config, last_restart, restart_count, last_counter_reset, now, top>>
    /\ UNCHANGED <<signals, recent, sinceReset>>
    /\ UNCHANGED <<pvars, cvars, mvars>>

\* a stop signal arrives while get_service_pid waits for systemctl show:
\* the bare "except:" of lines 74-75 catches the KeyboardInterrupt and
\* returns None, so the tick goes on as if the service were not running
HealthPidInterrupted ==
    /\ pc = "health"
    /\ signals < MaxSignals
    /\ signals' = signals + 1
    /\ \E outcome \in {"ok", "nonzero", "exception"} : tick' = PidAbsentTick(outcome)
    /\ pc' = "sleep"
    /\ UNCHANGED <<config, last_restart, restart_count, last_counter_reset, now, top>>
    /\ UNCHANGED <<recent, sinceReset>>
    /\ UNCHANGED <<pvars, cvars, mvars>>

\* a stop signal arrives while log() writes to the log file: the bare
\* "except:" of lines 62-63 swallows it and the tick goes on
LogWriteInterrupted ==
    /\ pc = "health"
    /\ signals < MaxSignals
    /\ signals' = signals + 1
    /\ UNCHANGED <<config, last_restart, restart_count, last_counter_reset, now, pc,
                   top, tick, recent, sinceReset>>
    /\ UNCHANGED <<pvars, cvars, mvars>>

\* a stop signal arrives while the tick is in get_process_stats,
\* get_system_stats or one of the start / restart / cleanup commands: these
\* catch Exception only, the KeyboardInterrupt reaches run_daemon (lines
\* 242-243), which logs and returns
HealthInterrupted ==
    /\ pc = "health"
    /\ signals < MaxSignals
    /\ signals' = signals + 1
    /\ tick' = [NoTick EXCEPT
                  !.kind = "interrupted",
                  !.pre_last = last_restart, !.pre_count = restart_count,
                  !.logs = <<"INFO:stopped">>]
    /\ pc' = "stopped"
    /\ UNCHANGED <<config, last_restart, restart_count, last_counter_reset, now, top>>
    /\ UNCHANGED <<recent, sinceReset>>
    /\ UNCHANGED <<pvars, cvars, mvars>>

\* a stop signal arrives during time.sleep (line 240): lines 242-243
SleepInterrupted ==
    /\ pc = "sleep"
    /\ signals < MaxSignals
    /\ signals' = signals + 1
    /\ pc' = "stopped"
    /\ UNCHANGED <<config, last_restart, restart_count, last_counter_reset, now,
                   top, tick, recent, sinceReset>>
    /\ UNCHANGED <<pvars, cvars, mvars>>

\* lines 191-194 without the "if not process_stats" guard: the stats log
\* line subscripts None and the exception ends the daemon
HealthStatsAbsent_fatal ==
    /\ pc = "health"
    /\ \E vanished \in BOOLEAN :
         tick' = [NoTick EXCEPT
                    !.kind = "stats_absent",
                    !.pre_last = last_restart, !.pre_count = restart_count,
                    !.processStatsCalls = 1, !.systemStatsCalls = 1,
                    !.logs = (IF vanished THEN <<>> ELSE <<"ERROR:process_stats">>)
                             \o <<"ERROR:guardian_error">>]
    /\ pc' = "fatal"
    /\ UNCHANGED <<config, last_restart, restart_count, last_counter_reset, now, top>>
    /\ UNCHANGED <<signals, recent, sinceReset>>
    /\ UNCHANGED <<pvars, cvars, mvars>>

\* lines 191-194: PID resolved, get_process_stats returns None
HealthStatsAbsent ==
    /\ pc = "health"
    /\ \E vanished \in BOOLEAN :
         tick' = [NoTick EXCEPT
                    !.kind = "stats_absent",
                    !.pre_last = last_restart, !.pre_count = restart_count,
                    !.processStatsCalls = 1,
                    !.logs = (IF vanished THEN <<>> ELSE <<"ERROR:process_stats">>)
                             \o <<"ERROR:no_process_stats">>]
    /\ pc' = "sleep"
    /\ UNCHANGED <<config, last_restart, restart_count, last_counter_reset, now, top>>
    /\ UNCHANGED <<signals, recent, sinceReset>>
    /\ UNCHANGED <<pvars, cvars, mvars>>

\* lines 196-205 with get_system_stats returning None: the log line
\* subscripts system_stats, the TypeError leaves check_service_health and
\* is caught by run_daemon's "except Exception" (lines 244-246): sys.exit(1)
HealthSystemStatsAbsent ==
    /\ pc = "health"
    /\ \E m \in MemReadings, c \in CpuReadings :
         tick' = [NoTick EXCEPT
                    !.kind = "sys_absent",
                    !.pre_last = last_restart, !.pre_count = restart_count,
                    !.memory_mb = m, !.cpu_percent = c,
                    !.processStatsCalls = 1, !.systemStatsCalls = 1,
                    !.logs = <<"ERROR:system_stats", "ERROR:guardian_error">>]
    /\ now' = now + SampleSeconds
    /\ pc' = "fatal"
    /\ UNCHANGED <<config, last_restart, restart_count, last_counter_reset, top>>
    /\ UNCHANGED <<signals, recent, sinceReset>>
    /\ UNCHANGED <<pvars, cvars, mvars>>

\* line 214: is the system memory high enough for a cleanup
CleanupDue_ge(s) == s >= CleanupThreshold

CleanupDue(s) == s > CleanupThreshold

\* the successful restarts of the hour that ends with a restart at time t
LastHour(times, t) ==
    Append(SelectSeq(times, LAMBDA x : t - x <= HourSeconds), t)

\* lines 196-215 with both snapshots present
HealthEvaluate ==
    /\ pc = "health"
    /\ \E m \in MemReadings, c \in CpuReadings, s \in SysMemReadings,
          outcome \in {"ok", "nonzero", "exception"}, d \in CmdDurations,
          cleanupOk \in BOOLEAN :
         LET t     == now + 2 * SampleSeconds
             stats == [memory_mb |-> m, cpu_percent |-> c]
             dec   == should_restart_service(config, last_restart, restart_count, stats, t)
             after == IF dec.restart
                      THEN restart_service(last_restart, restart_count, outcome, t + d)
                      ELSE RestartState(last_restart, restart_count)
             clean == CleanupDue(s)
             done  == dec.restart /\ outcome = "ok"
         IN  /\ (~dec.restart => outcome = "ok" /\ d = 0)
             /\ (~(clean /\ cleanup_memory(config)) => cleanupOk)
             /\ last_restart' = after.last_restart
             /\ restart_count' = after.restart_count
             /\ now' = IF dec.restart THEN t + d ELSE t
             /\ recent' = IF done THEN LastHour(recent, t + d) ELSE recent
             /\ sinceReset' = IF done THEN sinceReset + 1 ELSE sinceReset
             /\ tick' = [kind |-> "evaluated",
                         memory_mb |-> m, cpu_percent |-> c, sys_percent |-> s,
                         evalNow |-> t,
                         pre_last |-> last_restart, pre_count |-> restart_count,
                         restart |-> dec.restart, reason |-> dec.reason,
                         restartCmds |-> IF dec.restart THEN 1 ELSE 0,
                         restartOutcome |-> IF dec.restart THEN outcome ELSE "none",
                         startCmds |-> 0, startOutcome |-> "none",
                         cleanupCmds |-> IF clean /\ cleanup_memory(config) THEN 1 ELSE 0,
                         processStatsCalls |-> 1, systemStatsCalls |-> 1,
                         logs |-> <<"INFO:stats">>
                                  \o (IF dec.restart THEN RestartLogs(outcome) ELSE <<>>)
                                  \o (IF clean THEN CleanupLogs(config, cleanupOk) ELSE <<>>)]
    /\ pc' = "sleep"
    /\ UNCHANGED <<config, last_counter_reset, top, signals>>
    /\ UNCHANGED <<pvars, cvars, mvars>>

\* line 240: time.sleep(check_interval)
Sleep ==
    /\ pc = "sleep"
    /\ now + config.check_interval <= MaxTime
    /\ now' = now + config.check_interval
    /\ pc' = "loop_top"
    /\ UNCHANGED <<config, last_restart, restart_count, last_counter_reset, top, tick>>
    /\ UNCHANGED <<signals, recent, sinceReset>>
    /\ UNCHANGED <<pvars, cvars, mvars>>

Next ==
    \/ HourlyResetCheck
    \/ HealthPidAbsent
    \/ HealthStatsAbsent
    \/ HealthSystemStatsAbsent
    \/ HealthEvaluate
    \/ Sleep
    \/ HealthPidInterrupted
    \/ LogWriteInterrupted
    \/ HealthInterrupted
    \/ SleepInterrupted

Spec == Init /\ [][Next]_vars

\* the daemon with a short check interval, auto-restart on and no cooldown:
\* the restart rate is limited by the hourly budget alone
RateGuardianInit ==
    /\ config \in [enable_auto_restart   : {TRUE},
                   enable_memory_cleanup : {FALSE},
                   restart_cooldown      : {0},
                   max_restarts_per_hour : RateMaxRestarts,
                   check_interval        : RateIntervals]
    /\ last_restart = NoneT
    /\ restart_count = 0
    /\ last_counter_reset = 0
    /\ now = 0
    /\ pc = "loop_top"
    /\ top = NoTop
    /\ tick = NoTick
    /\ signals = 0
    /\ recent = <<>>
    /\ sinceReset = 0

RateInit == RateGuardianInit /\ PanelQuiet /\ CacheQuiet /\ MonitorQuiet

RateSpec == RateInit /\ [][Next]_vars

----------------------------------------------------------------------------
(* The daemon running for ever with the service running, its memory above  *)
(* the limit in every tick and every restart command succeeding.  The code *)
(* reads the clock only in differences (lines 123 and 232), so a behaviour *)
(* shifted in time is a behaviour: each sleep moves the origin of time to  *)
(* the last restart, which keeps the timestamps in a finite range.         *)

LiveGuardianInit ==
    /\ config \in [enable_auto_restart   : {TRUE},
                   enable_memory_cleanup : BOOLEAN,
                   restart_cooldown      : LiveCooldowns,
                   max_restarts_per_hour : LiveMaxRestarts,
                   check_interval        : LiveIntervals]
    /\ last_restart = NoneT
    /\ restart_count = 0
    /\ last_counter_reset = 0
    /\ now = 0
    /\ pc = "loop_top"
    /\ top = NoTop
    /\ tick = NoTick
    /\ signals = 0
    /\ recent = <<>>
    /\ sinceReset = 0

LiveInit == LiveGuardianInit /\ PanelQuiet /\ CacheQuiet /\ MonitorQuiet

\* check_service_health with stats present, memory over the limit and
\* systemctl restart exiting with 0 whenever it is run
LiveEvaluate ==
    /\ HealthEvaluate
    /\ tick'.memory_mb > memory_limit_mb
    /\ tick'.restartOutcome \in {"ok", "none"}

Shift(x, k) == IF x = NoneT THEN NoneT ELSE x - k

\* line 240, with the origin of time moved to the last restart
LiveSleep ==
    /\ pc = "sleep"
    /\ LET k == IF last_restart = NoneT THEN 0 ELSE last_restart
       IN  /\ now - k + config.check_interval <= MaxTime
           /\ now' = now - k + config.check_interval
           /\ last_restart' = Shift(last_restart, k)
           /\ last_counter_reset' = last_counter_reset - k
           /\ recent' = [i \in DOMAIN recent |-> recent[i] - k]
           /\ tick' = [tick EXCEPT !.evalNow = @ - k, !.pre_last = Shift(@, k)]
    /\ pc' = "loop_top"
    /\ UNCHANGED <<config, restart_count, top, signals, sinceReset>>
    /\ UNCHANGED <<pvars, cvars, mvars>>

LiveNext ==
    \/ HourlyResetCheck
    \/ LiveEvaluate
    \/ LiveSleep

\* the loop has no blocking step other than the sleep, which ends
LiveSpec == LiveInit /\ [][LiveNext]_vars /\ WF_vars(LiveNext)

TypeOK ==
    /\ restart_count \in Nat
    /\ last_restart \in Int
    /\ pc \in {"loop_top", "health", "sleep", "fatal", "stopped"}

----------------------------------------------------------------------------
(* Properties of the guardian *)

Evaluated == tick.kind = "evaluated"

\* the tick has just ended and the loop has not gone round again
TickJustEnded == pc \in {"sleep", "fatal"}

MemOver == tick.memory_mb > memory_limit_mb
CpuOver == tick.cpu_percent > cpu_limit_percent
CooldownActive ==
    tick.pre_last # NoneT /\ tick.evalNow - tick.pre_last < config.restart_cooldown
BudgetSpent == tick.pre_count >= config.max_restarts_per_hour
TickDecision == Decision(tick.restart, tick.reason)

\* C1: every evaluation of should_restart_service follows the precedence
\* disabled, cooldown, budget, memory, CPU, within limits; the first rule
\* that matches decides, memory wins over CPU, and a reading equal to its
\* limit does not trigger a restart.
C1_Precedence ==
    Evaluated =>
      LET a == config.enable_auto_restart IN
      /\ (~a => TickDecision = Decision(FALSE, "disabled"))
      /\ (a /\ CooldownActive => TickDecision = Decision(FALSE, "cooldown"))
      /\ (a /\ ~CooldownActive /\ BudgetSpent
             => TickDecision = Decision(FALSE, "max_restarts"))
      /\ (a /\ ~CooldownActive /\ ~BudgetSpent /\ MemOver
             => TickDecision = Decision(TRUE, "memory"))
      /\ (a /\ ~CooldownActive /\ ~BudgetSpent /\ ~MemOver /\ CpuOver
             => TickDecision = Decision(TRUE, "cpu"))
      /\ (a /\ ~CooldownActive /\ ~BudgetSpent /\ ~MemOver /\ ~CpuOver
             => TickDecision = Decision(FALSE, "within_limits"))
      /\ (tick.memory_mb = memory_limit_mb /\ tick.cpu_percent = cpu_limit_percent
             => ~tick.restart)

C1_Witness ==
    Evaluated /\ MemOver /\ CpuOver /\ TickDecision = Decision(TRUE, "memory")

\* C2: a successful restart is stamped at least restart_cooldown seconds
\* after the previous one, and a tick evaluated inside the cooldown issues
\* no restart command whatever the readings are.
C2_CooldownSpacing ==
    [][ /\ (last_restart' # last_restart /\ last_restart # NoneT
              => last_restart' - last_restart >= config.restart_cooldown)
        /\ ((Evaluated /\ CooldownActive)' => (tick.restartCmds = 0)') ]_vars

C2_Witness ==
    /\ Evaluated /\ tick.restartOutcome = "ok" /\ tick.pre_last # NoneT
    /\ config.restart_cooldown > 0
    /\ last_restart - tick.pre_last >= config.restart_cooldown

\* C3: with the budget spent the decision is no-restart and no restart
\* command is issued; restart_count never exceeds max_restarts_per_hour,
\* and with a budget of 0 no restart is ever issued.
C3_Budget ==
    /\ restart_count <= config.max_restarts_per_hour
    /\ (Evaluated /\ BudgetSpent => ~tick.restart /\ tick.restartCmds = 0)
    /\ (config.max_restarts_per_hour = 0 => last_restart = NoneT /\ tick.restartCmds = 0)

C3_Witness ==
    /\ Evaluated /\ tick.reason = "max_restarts" /\ MemOver
    /\ config.max_restarts_per_hour > 0
    /\ restart_count = config.max_restarts_per_hour

\* C4: a restart command that fails (non-zero exit, timeout, exception)
\* leaves last_restart and restart_count as they were; one that succeeds
\* sets last_restart to the current time and adds exactly one to
\* restart_count.
C4_RestartExecution ==
    (Evaluated /\ TickJustEnded /\ tick.restartCmds = 1) =>
      IF tick.restartOutcome = "ok"
      THEN last_restart = now /\ restart_count = tick.pre_count + 1
      ELSE last_restart = tick.pre_last /\ restart_count = tick.pre_count

C4_Witness ==
    /\ Evaluated /\ TickJustEnded /\ tick.restartCmds = 1
    /\ tick.restartOutcome \in {"nonzero", "exception"}
    /\ tick.pre_count > 0

\* C5 as claimed: when at least one hour (3600 s included) has passed since
\* the last reset, the tick zeroes restart_count and stamps the reset time
\* before the policy is evaluated.
C5_ResetAtOneHour ==
    (pc = "health" /\ top.elapsed >= HourSeconds)
      => restart_count = 0 /\ last_counter_reset = now

\* C5 amended: the reset fires when strictly more than one hour has passed
\* (restart_count zeroed and the reset time stamped before the policy is
\* evaluated); at 3600 s or less nothing is reset.
C5_ResetAfterOneHour ==
    /\ pc = "health" =>
         IF top.elapsed > HourSeconds
         THEN top.fired /\ restart_count = 0 /\ last_counter_reset = now
         ELSE /\ ~top.fired /\ restart_count = top.count
              /\ last_counter_reset = now - top.elapsed
    /\ (pc = "sleep" /\ Evaluated /\ top.fired) => tick.pre_count = 0

C5_Witness ==
    pc = "sleep" /\ Evaluated /\ top.fired /\ top.count > 0 /\ tick.pre_count = 0

\* C6: a tick whose PID resolution is absent logs a WARNING, issues exactly
\* one start command and ends: no stats call, no policy evaluation, no
\* restart or cleanup command, RestartState unchanged.
C6_PidAbsent ==
    (tick.kind = "pid_absent" /\ TickJustEnded) =>
      /\ pc = "sleep"
      /\ Head(tick.logs) = "WARNING:not_running"
      /\ tick.startCmds = 1
      /\ tick.processStatsCalls = 0 /\ tick.systemStatsCalls = 0
      /\ tick.reason = "none"
      /\ tick.restartCmds = 0 /\ tick.cleanupCmds = 0
      /\ last_restart = tick.pre_last /\ restart_count = tick.pre_count

C6_Witness ==
    tick.kind = "pid_absent" /\ TickJustEnded /\ tick.pre_count > 0

\* C7: with enable_auto_restart false every decision is no-restart, no
\* restart command is ever issued, and RestartState changes only by the
\* hourly reset.
C7_AutoRestartDisabled ==
    [][ ~config.enable_auto_restart =>
          /\ (Evaluated => TickDecision = Decision(FALSE, "disabled"))'
          /\ (tick.restartCmds = 0)'
          /\ last_restart' = last_restart
          /\ (restart_count' = restart_count
                \/ (pc = "loop_top" /\ restart_count' = 0)) ]_vars

C7_Witness ==
    ~config.enable_auto_restart /\ Evaluated /\ MemOver /\ CpuOver /\ pc = "sleep"

\* C8 as claimed: a tick whose system snapshot is absent (PID and process
\* stats present) still logs the stats, evaluates the policy, performs no
\* cleanup and completes, so the loop goes on to the next tick.
C8_SystemStatsAbsentAbsorbed ==
    tick.kind = "sys_absent" =>
      /\ pc # "fatal"
      /\ tick.reason # "none"
      /\ tick.cleanupCmds = 0

----------------------------------------------------------------------------
(* Properties of the panel *)

\* C9 as claimed: a status read that begins after an api_action call has
\* returned never answers with a value fetched before that action's
\* command ran.
C9_StatusFreshAfterAction ==
    \A t \in Threads :
      (th[t].op = "status" /\ th[t].pc = "done" /\ th[t].code = 200
         /\ th[t].resp # NoData)
        => th[t].resp.seq >= th[t].begin

\* C17: a request without a logged-in session ends at once with 401 and a
\* performAction with a name outside start/stop/restart ends at once with
\* 400 (401 when not logged in); such a request runs no command and leaves
\* the service, the status cache, the logs cache and the command cache as
\* they were, and no request without a session ever gets past the check.
Rejected(t) ==
    /\ th'[t] # th[t]
    /\ \/ ~th'[t].logged_in
       \/ (th'[t].op = "action" /\ th'[t].action \notin {"start", "stop", "restart"})

C17_Rejection ==
    [][\A t \in Threads :
         Rejected(t) =>
           /\ Free(t)
           /\ th'[t].pc = "done"
           /\ th'[t].code = (IF th'[t].logged_in THEN 400 ELSE 401)
           /\ th'[t].resp = NoData
           /\ UNCHANGED <<svc, actionSeq, status_cache, logs_cache, cmd_cache>>]_vars

C17_Witness ==
    /\ th[1].pc = "done" /\ th[1].op = "action" /\ th[1].code = 401
    /\ th[2].pc = "done" /\ th[2].op = "action" /\ th[2].code = 400
    /\ status_cache.data # NoData /\ logs_cache.data # NoData /\ cmd_cache # NoData

\* C18 as claimed: a restart command the panel runs for the service is
\* counted in RestartState like the guardian's own (restart_count + 1,
\* last_restart stamped) and is issued only when the guardian's checks
\* allow a restart (flag on, budget left).
PanelRestarts(t) ==
    /\ th[t].op = "action" /\ th[t].action = "restart" /\ th[t].pc = "exec"
    /\ th'[t].pc = "ret" /\ th'[t].val.active

C18_SingleRestartPath ==
    [][\A t \in Threads :
         PanelRestarts(t) =>
           /\ config.enable_auto_restart
           /\ restart_count < config.max_restarts_per_hour
           /\ restart_count' = restart_count + 1
           /\ last_restart' # NoneT]_vars

\* C19 as claimed: once the service has changed state with no panel action,
\* a status read that begins more than the status TTL later answers with
\* the state the service is in (as long as no panel action ran since).
ReadBegin(t) == IF Free(t) THEN ptime ELSE th[t].tnow

C19_StalenessBounded ==
    [][\A t \in Threads :
         (/\ th'[t] # th[t]
          /\ th'[t].op = "status" /\ th'[t].pc = "done" /\ th'[t].code = 200
          /\ changed # NoChange /\ changed.seq = actionSeq
          /\ ReadBegin(t) > changed.at + StatusTTL)
           => th'[t].resp.active = svc]_vars

\* C21 as claimed: the value api_logs answers for a request of n lines was
\* fetched for min(n, 200) lines, whatever the calls before it asked for.
C21_LogsHonourLines ==
    \A t \in Threads :
      (th[t].op = "logs" /\ th[t].pc = "done" /\ th[t].code = 200)
        => (th[t].resp # NoData /\ th[t].resp.lines = th[t].lines)

\* C22 as claimed: after a call of the wrapper returns, the cache holds at
\* most maxsize entries and holds the entry of that call; a call repeated
\* with the same arguments while that entry is younger than ttl does not
\* call the wrapped function again; and an eviction takes only entries
\* that are no younger than every entry kept, never the one just stored.
LwHolds(k, v) == \E i \in DOMAIN lw_cache : lw_cache[i].key = k /\ lw_cache[i].result = v

C22_LightweightCache ==
    lw_call.key # 0 =>
      /\ Len(lw_cache) <= lw_cfg.maxsize
      /\ LwHolds(lw_call.key, lw_call.result)
      /\ (lw_call.repeat => ~lw_call.invoked)
      /\ \A e \in lw_call.evicted :
            /\ e.key # lw_call.key
            /\ \A i \in DOMAIN lw_cache : e.timestamp <= lw_cache[i].timestamp

\* C23: after any sequence of log_stats calls memory_usage and cpu_usage
\* have the same length, at most 100, and hold the latest snapshots
\* received, in the order they arrived.
C23_BuffersBounded ==
    LET m == monitor_stats.memory_usage
        c == monitor_stats.cpu_usage
        k == Len(m)
    IN  /\ Len(c) = k
        /\ k <= BufferLimit
        /\ k <= samples
        /\ (samples > 0 => k > 0)
        /\ \A i \in 1..k :
              /\ m[i] = SystemSnapshot(samples - k + i).memory_percent
              /\ c[i] = SystemSnapshot(samples - k + i).cpu_percent

C23_Witness ==
    /\ samples > BufferLimit + BufferKeep
    /\ Len(monitor_stats.memory_usage) = BufferKeep
    /\ logged = "absent"

\* C10: get_cached_data with a fetch function that returns 1, 2, 3, ...:
\* a call answers from the cache only within ttl seconds of the fetch that
\* produced the value; without an invalidation a call fetches again only
\* when more than ttl seconds have passed since the previous fetch; a call
\* that fetches returns the new value and the cache holds it with the time
\* of that call.
C10_CacheRoundTrip ==
    calls > 0 =>
      /\ call.result = fetches
      /\ call.result \in 1..Len(fetchTime)
      /\ (~call.fetched => /\ call.t - fetchTime[call.result] <= cache.ttl
                           /\ call.t >= fetchTime[call.result])
      /\ (call.fetched => fetchTime[call.result] = call.t)
      /\ ((call.fetched /\ ~call.inval /\ call.result > 1)
            => call.t - fetchTime[call.result - 1] > cache.ttl)
      /\ (~invalidated => /\ cache.data = CounterValue(fetches)
                          /\ cache.timestamp = fetchTime[fetches])

C10_Witness ==
    /\ calls >= 3 /\ fetches = 2 /\ ~invalidated
    /\ call.fetched /\ ~call.inval /\ call.result = 2
    /\ cache.timestamp = call.t /\ call.t - fetchTime[1] > cache.ttl

----------------------------------------------------------------------------
(* Further properties of the guardian *)

HasLog(entry) == \E i \in DOMAIN tick.logs : tick.logs[i] = entry

RestartStateUntouched ==
    last_restart = tick.pre_last /\ restart_count = tick.pre_count

\* C11 as claimed: a stop signal delivered at any point of the loop is
\* observed: the loop stops, at the latest when the tick in progress ends,
\* no further tick is started and the signal is not turned into a
\* "service not running" tick.
C11_StopSignalObserved ==
    signals > 0 => pc \in {"stopped", "health"}

\* C12 as claimed: a start command that exits non-zero is logged at ERROR
\* and not as an attempted start, is issued once in the tick, and leaves
\* RestartState untouched.
C12_StartFailureSurfaced ==
    (tick.kind = "pid_absent" /\ TickJustEnded /\ tick.startOutcome = "nonzero") =>
      /\ HasLog("ERROR:start_failed")
      /\ ~HasLog("INFO:start_attempted")
      /\ tick.startCmds = 1
      /\ RestartStateUntouched

\* C13: a tick whose PID is resolved but whose process stats are absent
\* logs an ERROR and ends: no system stats, no restart decision, no
\* restart, start or cleanup command, RestartState unchanged, and the loop
\* goes on to sleep for the next tick.
C13_StatsAbsent ==
    (tick.kind = "stats_absent" /\ TickJustEnded) =>
      /\ pc = "sleep"
      /\ HasLog("ERROR:no_process_stats")
      /\ tick.processStatsCalls = 1 /\ tick.systemStatsCalls = 0
      /\ tick.reason = "none"
      /\ tick.restartCmds = 0 /\ tick.startCmds = 0 /\ tick.cleanupCmds = 0
      /\ RestartStateUntouched

C13_Witness ==
    tick.kind = "stats_absent" /\ pc = "sleep" /\ tick.pre_count > 0
      /\ tick.pre_last # NoneT

C15_RestartStateFrame ==
    [][ LET succeeded == pc = "health" /\ tick'.kind = "evaluated"
                           /\ tick'.restartOutcome = "ok"
        IN  /\ (restart_count' # restart_count =>
                  \/ (succeeded /\ restart_count' = restart_count + 1)
                  \/ (pc = "loop_top" /\ top'.fired /\ restart_count' = 0))
            /\ (last_restart' # last_restart =>
                  succeeded /\ last_restart' > last_restart)
            /\ ((pc = "health" /\ ~succeeded) =>
                  last_restart' = last_restart /\ restart_count' = restart_count) ]_vars

C15_Witness ==
    /\ Evaluated /\ pc = "sleep" /\ tick.restartOutcome = "ok" /\ top.fired
    /\ tick.pre_last # NoneT /\ last_restart > tick.pre_last
    /\ restart_count = tick.pre_count + 1

\* C16: with auto-restart on, a positive budget, the service running with
\* its memory above the limit in every tick and restart commands
\* succeeding, successful restarts happen again and again for ever; and a
\* tick whose hourly reset fired and whose cooldown has elapsed issues the
\* restart in that same tick.
RestartIssued == pc = "sleep" /\ Evaluated /\ tick.restartOutcome = "ok"

CooldownElapsed ==
    tick.pre_last = NoneT \/ tick.evalNow - tick.pre_last >= config.restart_cooldown

C16_NoStarvation ==
    /\ []<>RestartIssued
    /\ []((pc = "sleep" /\ Evaluated /\ top.fired /\ CooldownElapsed)
            => (RestartIssued /\ restart_count = 1))

C16_Witness ==
    /\ RestartIssued /\ top.fired /\ top.count >= config.max_restarts_per_hour
    /\ config.restart_cooldown > 0 /\ CooldownElapsed

\* C20: any interval of 3600 seconds holds at most 2 * max_restarts_per_hour
\* successful restarts, and between two consecutive hourly resets there are
\* at most max_restarts_per_hour.
C20_RestartRate ==
    /\ Len(recent) <= 2 * config.max_restarts_per_hour
    /\ sinceReset <= config.max_restarts_per_hour

C20_Witness ==
    /\ config.max_restarts_per_hour = 2
    /\ Len(recent) = 2 * config.max_restarts_per_hour
    /\ recent[Len(recent)] - recent[1] <= HourSeconds

====
